---- MODULE Spec2Model ----
(***************************************************************************)
(* Model of the generic refinement tree of src/src/generic/tree.h:         *)
(* Tree, TreeRoot and TreeForest.                                          *)
(*                                                                         *)
(* Tree objects are identified by the integers 1..MaxNodes (their          *)
(* addresses); NULL is the null pointer.  The fields of every object are   *)
(* functions over Nodes; `alive` is the set of objects that currently      *)
(* exist.  Every operation is a pure operator on a record of all fields    *)
(* (the "heap"), and the action of the operation installs the heap the     *)
(* operator returns.                                                       *)
(*                                                                         *)
(* The RefineableElement of a node is an external collaborator.  Its       *)
(* answers to to_be_refined() / sons_to_be_unrefined() are inputs of the   *)
(* calls that query them.  The element built for node n is named n.        *)
(*                                                                         *)
(* A call that dereferences a null pointer or a deleted object has no      *)
(* defined outcome; such calls (SplitDefined, MergeDefined) end the run    *)
(* and have no successor state here.                                       *)
(*                                                                         *)
(* tree.h only declares split_if_required, merge_sons_if_required, the     *)
(* traversals, the value constructors of Tree and the TreeForest members   *)
(* stick_*_into_vector and the constructor; their bodies are modelled from *)
(* the documented behaviour of the operations.                             *)
(* The destructors are declared only as well; they are modelled from the   *)
(* comments of their declarations.                                         *)
(*                                                                         *)
(* Spec is the tree and forest structure with its raw mutators,            *)
(* SpecNeighbour the neighbour maps of the TreeRoots, and SpecConstruct    *)
(* the constructors, the default constructors among them.                  *)
(*                                                                         *)
(* The second part models the PseudoBucklingRing and the                   *)
(* PseudoBucklingRingElement of src/unnamed/part_000 with the Data they    *)
(* hold.  Data and GeneralisedElement are library classes whose code is    *)
(* not part of the sources; their members are modelled by what their       *)
(* names and the comments at their calls say.  Doubles are terms named by  *)
(* the quantity they stand for.  SpecRing is the life of the rings, the    *)
(* elements and their Data, SpecDerivative the calls of dposition_dt.      *)
(***************************************************************************)
EXTENDS Integers, Sequences, FiniteSets, TLC

\* ------------------------------------------------------------------ bounds
\* Number of Tree objects that can exist at the same time.
MaxNodes == 5

\* Number of TreeRoots that can exist at the same time.
MaxTrees == 2

\* Spatial dimension d of the tree flavour: a split creates 2^d sons.
Dim == 1

\* Number of calls of the raw mutators (set_son_pt, flush_sons,
\* set_father_pt, assignment through root_pt(), flush_object) in one run.
MaxRawCalls == 1

\* Number of calls that write to the neighbour maps of the TreeRoots in
\* one run (among them the reads, which insert the entry they read).
MaxNbrCalls == 2

\* The largest direction code handed to the neighbour calls of a TreeRoot.
MaxDir == 1

\* Number of Data objects and of PseudoBucklingRing(Element) objects
\* constructed in one run.
MaxData == 3

MaxRings == 1

\* The largest buckling wavenumber n_buckl and mode number imode handed to
\* the constructors of a ring, the largest nprev_values() of a timestepper
\* and the largest order j handed to dposition_dt.
MaxNBuckl == 2

MaxMode == 2

MaxPrev == 0

MaxDeriv == 3

\* --------------------------------------------------------------- constants
NULL == 0

\* Tree::OMEGA, the Son_type of a node that is nobody's son.  tree.h
\* declares it and sets its value elsewhere; the model needs only that it
\* is no son type.
OMEGA == -1

Nodes == 1..MaxNodes

\* The direction codes ("const int& direction") handed to a TreeRoot.
Dirs == 0..MaxDir

\* A std::map without entries.
EmptyMap == [d \in {} |-> NULL]

NSons == 2 ^ Dim

VARIABLES
  alive,      \* set of Tree objects that exist
  treeRoot,   \* the objects among them that are TreeRoots
  Father_pt,  \* Tree::Father_pt
  Son_pt,     \* Tree::Son_pt (Vector<Tree*>, 1-based here, son type i at i+1)
  Level,      \* Tree::Level
  Son_type,   \* Tree::Son_type
  Object_pt,  \* Tree::Object_pt
  Root_pt,    \* Tree::Root_pt
  Neighbour_pt,        \* TreeRoot::Neighbour_pt (std::map<int, TreeRoot*>)
  Neighbour_periodic,  \* TreeRoot::Neighbour_periodic (std::map<int, bool>)
  forest,     \* "none" before TreeForest is constructed, then "live"
  Trees_pt,   \* TreeForest::Trees_pt
  rawCalls,   \* number of raw mutator calls made so far
  rawUsed,    \* the raw mutators called so far
  nbrCalls,   \* number of writing calls on neighbour maps made so far
  nbrSet,     \* <<map, root, direction>> of the entries set explicitly
  deleted,    \* the elements (RefineableElements) deleted by destructors
  thrown,     \* the constructors that have thrown an OomphLibError
  data,       \* the Data objects (part_000: Geom_data_pt[0], reference pressure)
  ring,       \* the PseudoBucklingRing(Element) objects
  caller      \* the vector drdt of the caller of dposition_dt and its outcome

\* The variables of the trees and of the rings.
treeVars == <<alive, treeRoot, Father_pt, Son_pt, Level, Son_type, Object_pt,
              Root_pt, Neighbour_pt, Neighbour_periodic, forest, Trees_pt,
              rawCalls, rawUsed, nbrCalls, nbrSet, deleted, thrown>>

ringVars == <<data, ring, caller>>

vars == <<treeVars, ringVars>>

\* The variables that record the calls made.
calls == <<rawCalls, rawUsed, nbrCalls, nbrSet, thrown>>

\* The heap as one record.
Heap ==
  [alive |-> alive, treeRoot |-> treeRoot, Father_pt |-> Father_pt,
   Son_pt |-> Son_pt, Level |-> Level, Son_type |-> Son_type,
   Object_pt |-> Object_pt, Root_pt |-> Root_pt,
   Neighbour_pt |-> Neighbour_pt, Neighbour_periodic |-> Neighbour_periodic,
   forest |-> forest, Trees_pt |-> Trees_pt]

Install(H) ==
  /\ alive' = H.alive
  /\ treeRoot' = H.treeRoot
  /\ Father_pt' = H.Father_pt
  /\ Son_pt' = H.Son_pt
  /\ Level' = H.Level
  /\ Son_type' = H.Son_type
  /\ Object_pt' = H.Object_pt
  /\ Root_pt' = H.Root_pt
  /\ Neighbour_pt' = H.Neighbour_pt
  /\ Neighbour_periodic' = H.Neighbour_periodic
  /\ forest' = H.forest
  /\ Trees_pt' = H.Trees_pt

\* ------------------------------------------------------------ allocation
Free(H) == Nodes \ H.alive

\* operator new: the i-th fresh address (the free addresses in ascending
\* order).
NewNode(H, i) ==
  CHOOSE x \in Free(H) : Cardinality({y \in Free(H) : y < x}) = i - 1

CanAllocate(H, k) == Cardinality(Free(H)) >= k

\* operator delete: the object stops existing; its storage is blanked.
Delete(H, n) ==
  [H EXCEPT !.alive = @ \ {n}, !.treeRoot = @ \ {n},
            !.Father_pt[n] = NULL, !.Son_pt[n] = <<>>, !.Level[n] = 0,
            !.Son_type[n] = OMEGA, !.Object_pt[n] = NULL,
            !.Root_pt[n] = NULL, !.Neighbour_pt[n] = EmptyMap,
            !.Neighbour_periodic[n] = EmptyMap]

\* ---------------------------------------------------------------- Vector
\* The outcome of a call: a returned value or an OomphLibError.
Ret(x) == [ok |-> TRUE, value |-> x]

RangeError == [ok |-> FALSE, value |-> NULL]

\* What an access outside a Vector can do: a range-checking build throws,
\* any other build reads whatever lies there.
OutOfRange == {RangeError} \cup {Ret(x) : x \in Nodes \cup {NULL}}

\* The possible outcomes of vec[i], i counted from 0 as in the code.
Vector_at(vec, i) ==
  IF i \in 0..(Len(vec) - 1) THEN {Ret(vec[i + 1])} ELSE OutOfRange

\* The entries of a Vector.
Range(q) == {q[i] : i \in 1..Len(q)}

\* ------------------------------------------------------- Tree: accessors
object_pt(H, n) == H.Object_pt[n]

nsons(H, n) == Len(H.Son_pt[n])

is_leaf_Inverted(H, n) == IF Len(H.Son_pt[n]) = 0 THEN FALSE ELSE TRUE

is_leaf_NoSonOrOne(H, n) == IF Len(H.Son_pt[n]) <= 1 THEN TRUE ELSE FALSE

is_leaf_Always(H, n) == TRUE

is_leaf(H, n) == IF Len(H.Son_pt[n]) = 0 THEN TRUE ELSE FALSE

son_pt_AlwaysFirst(H, n, son_index) ==
  IF Len(H.Son_pt[n]) = 0 THEN NULL ELSE H.Son_pt[n][1]

\* son_index is the son type, 0-based as in the code.
son_pt(H, n, son_index) ==
  IF Len(H.Son_pt[n]) = 0 THEN NULL ELSE H.Son_pt[n][son_index + 1]

son_pt_call_NoLeafCheck(H, n, son_index) == Vector_at(H.Son_pt[n], son_index)

\* The possible outcomes of son_pt(son_index) for any integer son_index.
son_pt_call(H, n, son_index) ==
  IF Len(H.Son_pt[n]) = 0 THEN {Ret(NULL)}
  ELSE Vector_at(H.Son_pt[n], son_index)

root_pt(H, n) == H.Root_pt[n]

father_pt_ReturnsRoot(H, n) == H.Root_pt[n]

father_pt(H, n) == H.Father_pt[n]

level(H, n) == H.Level[n]

son_type(H, n) == H.Son_type[n]

\* -------------------------------------------------------- Tree: mutators
flush_object_AndSons(H, n) ==
  [H EXCEPT !.Object_pt[n] = NULL, !.Son_pt[n] = <<>>]

flush_object_Detach(H, n) ==
  [H EXCEPT !.Object_pt[n] = NULL, !.Father_pt[n] = NULL]

flush_object(H, n) == [H EXCEPT !.Object_pt[n] = NULL]

set_son_pt_Truncated(H, n, vec) ==
  [H EXCEPT !.Son_pt[n] = SubSeq(vec, 1, Len(vec) - 1)]

set_son_pt(H, n, vec) == [H EXCEPT !.Son_pt[n] = vec]

flush_sons_KeepFirst(H, n) ==
  [H EXCEPT !.Son_pt[n] = IF Len(@) = 0 THEN @ ELSE <<Head(@)>>]

flush_sons(H, n) == [H EXCEPT !.Son_pt[n] = <<>>]

set_father_pt(H, n, f) == [H EXCEPT !.Father_pt[n] = f]

\* root_pt() returns a reference: "n->root_pt() = r".
set_root_pt(H, n, r) == [H EXCEPT !.Root_pt[n] = r]

\* ---------------------------------------------------- Tree: constructors
\* The outcome of a constructor call: the heap after it and whether it has
\* thrown an OomphLibError.
Constructed(H) == [heap |-> H, thrown |-> FALSE]

Thrown(H) == [heap |-> H, thrown |-> TRUE]

Tree_default_ctor_Unattached(H) ==
  IF CanAllocate(H, 1)
    THEN Constructed([H EXCEPT !.alive = @ \cup {NewNode(H, 1)}])
    ELSE Thrown(H)

\* Tree(): "Default constructor (empty and broken)", throws.
Tree_default_ctor(H) == Thrown(H)

\* Tree(object_pt): "no father, no sons; just pass a pointer to its object";
\* the level of a root is 0.
Tree_ctor(H, n, obj) ==
  [H EXCEPT !.alive = @ \cup {n}, !.Father_pt[n] = NULL, !.Son_pt[n] = <<>>,
            !.Level[n] = 0, !.Son_type[n] = OMEGA, !.Object_pt[n] = obj,
            !.Root_pt[n] = NULL]

\* Tree(object_pt, father_pt, son_type): the node records its father and
\* its son type, lies one level below its father and shares its root.
Tree_son_ctor(H, n, obj, f, st) ==
  [H EXCEPT !.alive = @ \cup {n}, !.Father_pt[n] = f, !.Son_pt[n] = <<>>,
            !.Level[n] = H.Level[f] + 1, !.Son_type[n] = st,
            !.Object_pt[n] = obj, !.Root_pt[n] = H.Root_pt[f]]

\* construct_son is pure virtual; every flavour (QuadTree, OcTree, ...)
\* returns "new FLAVOUR(object_pt, father_pt, son_type)".
construct_son(H, n, obj, f, st) == Tree_son_ctor(H, n, obj, f, st)

TreeRoot_ctor_NoRoot(H, n, obj) ==
  [Tree_ctor(H, n, obj) EXCEPT !.treeRoot = @ \cup {n},
                               !.Neighbour_pt[n] = EmptyMap,
                               !.Neighbour_periodic[n] = EmptyMap]

\* TreeRoot(object_pt) : Tree(object_pt) { Root_pt = this; }; the two maps
\* are default-constructed, without entries.
TreeRoot_ctor(H, n, obj) ==
  [Tree_ctor(H, n, obj) EXCEPT !.treeRoot = @ \cup {n}, !.Root_pt[n] = n,
                               !.Neighbour_pt[n] = EmptyMap,
                               !.Neighbour_periodic[n] = EmptyMap]

\* ------------------------------------------------- TreeRoot: neighbours
\* std::map::operator[]: the map after m[d], which inserts a
\* value-initialised entry if there is none.
MapAccess(m, d, dflt) ==
  IF d \in DOMAIN m THEN m
  ELSE [x \in DOMAIN m \cup {d} |-> IF x = d THEN dflt ELSE m[x]]

\* "m[d] = v".
MapAssign(m, d, v) ==
  [x \in DOMAIN m \cup {d} |-> IF x = d THEN v ELSE m[x]]

\* neighbour_pt(direction) returns the reference Neighbour_pt[direction]:
\* the heap after the call and the value the reference holds.
neighbour_pt_heap(H, r, d) ==
  [H EXCEPT !.Neighbour_pt[r] = MapAccess(@, d, NULL)]

neighbour_pt(H, r, d) == MapAccess(H.Neighbour_pt[r], d, NULL)[d]

set_neighbour_pt_Symmetric(H, r, d, v) ==
  IF v = NULL THEN [H EXCEPT !.Neighbour_pt[r] = MapAssign(@, d, v)]
  ELSE [H EXCEPT !.Neighbour_pt[r] = MapAssign(@, d, v),
                 !.Neighbour_pt[v] = MapAssign(@, d, r)]

\* "r->neighbour_pt(d) = v".
set_neighbour_pt(H, r, d, v) ==
  [H EXCEPT !.Neighbour_pt[r] = MapAssign(MapAccess(@, d, NULL), d, v)]

\* is_neighbour_periodic(direction) returns Neighbour_periodic[direction].
is_neighbour_periodic_heap(H, r, d) ==
  [H EXCEPT !.Neighbour_periodic[r] = MapAccess(@, d, FALSE)]

is_neighbour_periodic_Set(H, r, d) == d \in DOMAIN H.Neighbour_periodic[r]

is_neighbour_periodic(H, r, d) ==
  MapAccess(H.Neighbour_periodic[r], d, FALSE)[d]

set_neighbour_periodic(H, r, d) ==
  [H EXCEPT !.Neighbour_periodic[r] = MapAssign(@, d, TRUE)]

set_neighbour_nonperiodic_NoNeighbour(H, r, d) ==
  [H EXCEPT !.Neighbour_periodic[r] = MapAssign(@, d, FALSE),
            !.Neighbour_pt[r] = MapAssign(@, d, NULL)]

set_neighbour_nonperiodic(H, r, d) ==
  [H EXCEPT !.Neighbour_periodic[r] = MapAssign(@, d, FALSE)]

\* The loop of nneighbour() over the entries it still has to visit.
RECURSIVE nneighbour_from(_, _, _)
nneighbour_from(H, r, keys) ==
  IF keys = {} THEN 0
  ELSE LET first == CHOOSE k \in keys : \A x \in keys : k <= x IN
         (IF H.Neighbour_pt[r][first] # NULL THEN 1 ELSE 0)
           + nneighbour_from(H, r, keys \ {first})

nneighbour_Size(H, r) == Cardinality(DOMAIN H.Neighbour_pt[r])

nneighbour(H, r) == nneighbour_from(H, r, DOMAIN H.Neighbour_pt[r])

\* ------------------------------------------------- Tree: split and merge
\* The sons of n as a set.
SonSet(H, n) == {H.Son_pt[n][i] : i \in 1..Len(H.Son_pt[n])}

\* The heap after sons of type 0..k-1 have been built for n; the son of
\* type i lives at the (i+1)-th fresh address of H and represents the
\* element the father's element built for it.
RECURSIVE BuildSons(_, _, _)
BuildSons(H, n, k) ==
  IF k = 0 THEN H
  ELSE construct_son(BuildSons(H, n, k - 1), NewNode(H, k), NewNode(H, k),
                     n, k - 1)

\* The call dereferences Object_pt; the bound on the number of objects
\* stops a split that would need more than MaxNodes objects.
SplitDefined(H, n, refine) ==
  /\ H.Object_pt[n] # NULL
  /\ (is_leaf(H, n) /\ refine) => CanAllocate(H, NSons)

\* split_if_required; refine is the answer of object_pt()->to_be_refined().
split_if_required(H, n, refine) ==
  IF is_leaf(H, n) /\ refine
    THEN set_son_pt(BuildSons(H, n, NSons), n,
                    [i \in 1..NSons |-> NewNode(H, i)])
    ELSE H

RECURSIVE DeleteAll(_, _)
DeleteAll(H, S) ==
  IF S = {} THEN H
  ELSE LET n == CHOOSE x \in S : TRUE IN DeleteAll(Delete(H, n), S \ {n})

\* The call reads every son and the element of every son.
MergeDefined(H, n) ==
  /\ H.Object_pt[n] # NULL
  /\ \A s \in SonSet(H, n) : s \in H.alive /\ H.Object_pt[s] # NULL

\* merge_sons_if_required; unref is the set of sons whose elements request
\* unrefinement.  The sons are leaves when they are deleted.
merge_sons_if_required(H, n, unref) ==
  IF /\ ~is_leaf(H, n)
     /\ \A s \in SonSet(H, n) : is_leaf(H, s) /\ s \in unref
    THEN flush_sons(DeleteAll(H, SonSet(H, n)), n)
    ELSE H

\* ------------------------------------------------------ Tree: traversals
\* A traversal is modelled by the sequence of nodes at which it executes
\* the member function, in the order of the calls.  Every traversal visits
\* the sons by ascending son index.
RECURSIVE traverse_all(_, _)
RECURSIVE traverse_all_sons(_, _, _)
traverse_all(H, n) == <<n>> \o traverse_all_sons(H, n, 0)

traverse_all_sons(H, n, i) ==
  IF i >= nsons(H, n) THEN <<>>
  ELSE traverse_all(H, son_pt(H, n, i)) \o traverse_all_sons(H, n, i + 1)

RECURSIVE traverse_all_but_leaves(_, _)
RECURSIVE traverse_all_but_leaves_sons(_, _, _)
traverse_all_but_leaves(H, n) ==
  IF is_leaf(H, n) THEN <<>>
  ELSE <<n>> \o traverse_all_but_leaves_sons(H, n, 0)

traverse_all_but_leaves_sons(H, n, i) ==
  IF i >= nsons(H, n) THEN <<>>
  ELSE traverse_all_but_leaves(H, son_pt(H, n, i))
         \o traverse_all_but_leaves_sons(H, n, i + 1)

RECURSIVE traverse_leaves(_, _)
RECURSIVE traverse_leaves_sons(_, _, _)
traverse_leaves(H, n) ==
  IF is_leaf(H, n) THEN <<n>> ELSE traverse_leaves_sons(H, n, 0)

traverse_leaves_sons(H, n, i) ==
  IF i >= nsons(H, n) THEN <<>>
  ELSE traverse_leaves(H, son_pt(H, n, i)) \o traverse_leaves_sons(H, n, i + 1)

\* stick_*_into_vector(vec): the traversal whose member function appends
\* the node to vec.
stick_leaves_into_vector(H, n, vec) == vec \o traverse_leaves(H, n)

stick_all_tree_nodes_into_vector(H, n, vec) == vec \o traverse_all(H, n)

\* ------------------------------------------------------------ TreeForest
\* TreeForest(trees_pt): the forest holds the trees in the order given.
TreeForest_default_ctor_Empty(H) ==
  Constructed([H EXCEPT !.forest = "live", !.Trees_pt = <<>>])

\* TreeForest(): "Default constructor (empty and broken)", throws.
TreeForest_default_ctor(H) == Thrown(H)

TreeForest_ctor(H, trees) == [H EXCEPT !.forest = "live", !.Trees_pt = trees]

ntree_OneShort(H) == Len(H.Trees_pt) - 1

ntree(H) == Len(H.Trees_pt)

\* i is 0-based as in the code.
tree_pt(H, i) == H.Trees_pt[i + 1]

tree_pt_call_FromOne(H, i) == Vector_at(H.Trees_pt, i + 1)

\* The possible outcomes of tree_pt(i) for any unsigned i.
tree_pt_call(H, i) == Vector_at(H.Trees_pt, i)

flush_trees_Deleting(H) ==
  [DeleteAll(H, Range(H.Trees_pt)) EXCEPT !.Trees_pt = <<>>]

\* Trees_pt.clear().
flush_trees(H) == [H EXCEPT !.Trees_pt = <<>>]

\* The forest-wide vectors: tree 0, then tree 1, ... each appending its own
\* traversal to the vector.
RECURSIVE forest_stick_leaves_from(_, _, _)
forest_stick_leaves_from(H, i, vec) ==
  IF i >= ntree(H) THEN vec
  ELSE forest_stick_leaves_from(H, i + 1,
         stick_leaves_into_vector(H, tree_pt(H, i), vec))

forest_stick_leaves_into_vector(H, vec) == forest_stick_leaves_from(H, 0, vec)

RECURSIVE forest_stick_all_from(_, _, _)
forest_stick_all_from(H, i, vec) ==
  IF i >= ntree(H) THEN vec
  ELSE forest_stick_all_from(H, i + 1,
         stick_all_tree_nodes_into_vector(H, tree_pt(H, i), vec))

forest_stick_all_tree_nodes_into_vector(H, vec) ==
  forest_stick_all_from(H, 0, vec)

\* ------------------------------------------------------------ destruction
\* The nodes reachable from the nodes of S over at most k son links.
RECURSIVE SonClosure(_, _, _)
SonClosure(H, S, k) ==
  LET next == S \cup UNION {SonSet(H, x) : x \in S \cap H.alive} IN
    IF k = 0 \/ next = S THEN S ELSE SonClosure(H, next, k - 1)

\* The traversals from n terminate and read existing objects only: every
\* node below n exists and none lies below itself.
Traversable(H, n) ==
  /\ n \in H.alive
  /\ \A x \in SonClosure(H, {n}, MaxNodes) :
       x \in H.alive /\ x \notin SonClosure(H, SonSet(H, x), MaxNodes)

\* The nodes that the destructor of the trees in S reaches.
Reached(H, S) == SonClosure(H, S, MaxNodes)

\* "delete" of the trees in S deletes existing objects only and each of
\* them once: every node reached exists, no node is the son of two nodes
\* or twice the son of one, and no tree of S is a son.
DtorDefined(H, S) ==
  LET reached == Reached(H, S) IN
    /\ reached \subseteq H.alive
    /\ \A x \in reached :
         /\ Cardinality(SonSet(H, x)) = Len(H.Son_pt[x])
         /\ SonSet(H, x) \cap S = {}
         /\ \A y \in reached \ {x} : SonSet(H, x) \cap SonSet(H, y) = {}

\* The state of a destruction under way: the heap and the elements deleted.
Destruction(H, D) == [heap |-> H, deleted |-> D]

RECURSIVE Tree_dtor(_, _)
RECURSIVE Tree_dtor_sons(_, _, _)
Tree_dtor_KeepObjects(D, n) ==
  LET sons == Tree_dtor_sons(D, n, 0) IN
    Destruction(Delete(sons.heap, n), sons.deleted)

Tree_dtor_AllObjects(D, n) ==
  LET sons == Tree_dtor_sons(D, n, 0) IN
    Destruction(Delete(sons.heap, n),
                sons.deleted \cup
                  (IF object_pt(D.heap, n) # NULL
                     THEN {object_pt(D.heap, n)} ELSE {}))

\* ~Tree(): "Deleting a tree also deletes the objects associated with its
\* non-leave nodes": the sons are deleted, then the object if the node has
\* sons.
Tree_dtor(D, n) ==
  LET sons == Tree_dtor_sons(D, n, 0) IN
    Destruction(Delete(sons.heap, n),
                sons.deleted \cup
                  (IF nsons(D.heap, n) > 0 /\ object_pt(D.heap, n) # NULL
                     THEN {object_pt(D.heap, n)} ELSE {}))

\* The deletion of the sons of n from index i on.
Tree_dtor_sons(D, n, i) ==
  IF i >= nsons(D.heap, n) THEN D
  ELSE Tree_dtor_sons(Tree_dtor(D, son_pt(D.heap, n, i)), n, i + 1)

\* "delete n" for a Tree n.
delete_Tree(H, n) == Tree_dtor(Destruction(H, {}), n)

\* ~TreeForest(): "Delete the constituent trees (and thus the objects
\* associated with its non-leaf nodes!)", tree by tree.
RECURSIVE TreeForest_dtor_from(_, _, _)
TreeForest_dtor_from(D, trees, i) ==
  IF i > Len(trees) THEN D
  ELSE TreeForest_dtor_from(Tree_dtor(D, trees[i]), trees, i + 1)

TreeForest_dtor(H) ==
  LET D == TreeForest_dtor_from(Destruction(H, {}), H.Trees_pt, 1) IN
    Destruction([D.heap EXCEPT !.forest = "destroyed", !.Trees_pt = <<>>],
                D.deleted)

\* ================================================================ rings
\* PseudoBucklingRing and PseudoBucklingRingElement (src/unnamed/part_000).
\* Data objects are identified by 1..MaxData and rings by 1..MaxRings.  A
\* double is a term Val(q, k): the quantity q with the integers k it
\* depends on; different terms stand for different numbers.
DataIds == 1..MaxData

RingIds == 1..MaxRings

Val(q, k) == [q |-> q, k |-> k]

\* double(n) and the literals 0.0 and 1.0.
Double(n) == Val("double", <<n>>)

\* The doubles handed to the constructors by their callers.
Given(q) == Val(q, <<>>)

\* The geometric Data holds five values.
NGeomValues == 5

NoData == [state |-> "none", value |-> <<>>, pinned |-> <<>>, frees |-> 0]

NoRing ==
  [state |-> "none", element |-> FALSE, Geom_data_pt |-> <<>>,
   Must_clean_up |-> FALSE, Internal_geometric_variable_index |-> 0,
   External_reference_pressure_index |-> 0,
   External_reference_pressure_pt |-> NULL,
   Internal_data_pt |-> <<>>, External_data_pt |-> <<>>]

\* The ring objects and the Data objects together.
Rings == [data |-> data, ring |-> ring]

InstallRings(R) == data' = R.data /\ ring' = R.ring

\* operator new: the lowest address not yet used; addresses are not reused.
NewData(R) == CHOOSE d \in DataIds :
                /\ R.data[d].state = "none"
                /\ \A e \in DataIds : e < d => R.data[e].state # "none"

CanAllocateData(R) == \E d \in DataIds : R.data[d].state = "none"

NewRing(R) == CHOOSE r \in RingIds :
                /\ R.ring[r].state = "none"
                /\ \A e \in RingIds : e < r => R.ring[e].state # "none"

CanAllocateRing(R) == \E r \in RingIds : R.ring[r].state = "none"

\* ------------------------------------------------------------------ Data
\* new Data(time_stepper_pt, n_value): n_value values for the present time
\* and every previous time, all 0.0 and none pinned; entry t + 1 of value
\* is the history value t, entry i + 1 of it the value i.
Data_ctor(R, d, n_time, n_value) ==
  [R EXCEPT !.data[d] =
     [state |-> "live",
      value |-> [t \in 1..(n_time + 1) |-> [i \in 1..n_value |-> Double(0)]],
      pinned |-> [i \in 1..n_value |-> FALSE],
      frees |-> 0]]

\* set_value(t, i, v).
Data_set_value(R, d, t, i, v) == [R EXCEPT !.data[d].value[t + 1][i + 1] = v]

Data_pin(R, d, i) == [R EXCEPT !.data[d].pinned[i + 1] = TRUE]

Data_unpin(R, d, i) == [R EXCEPT !.data[d].pinned[i + 1] = FALSE]

\* value(i): the present value.
Data_value(R, d, i) == R.data[d].value[1][i + 1]

Data_is_pinned(R, d, i) == R.data[d].pinned[i + 1]

\* delete d.
Data_delete(R, d) ==
  [R EXCEPT !.data[d].state = "deleted", !.data[d].frees = @ + 1]

\* -------------------------------------------------- PseudoBucklingRing
\* GeomObject(1, 2, time_stepper_pt) for a new object r.
GeomObject_ctor(R, r) == [R EXCEPT !.ring[r] = [NoRing EXCEPT !.state = "live"]]

\* PseudoBucklingRing(geom_data_pt, time_stepper_pt): the Data was created
\* externally.
PseudoBucklingRing_ctor_Data(R, r, geom_data_pt) ==
  [GeomObject_ctor(R, r) EXCEPT !.ring[r].Geom_data_pt = <<geom_data_pt[1]>>,
                                !.ring[r].Must_clean_up = FALSE]

\* One pass of the loop body "set_value(itime, i, ...); pin(i)" for the
\* values i, i + 1, ..., 4 of vals.
RECURSIVE SetAndPin(_, _, _, _, _)
SetAndPin(R, d, itime, vals, i) ==
  IF i >= Len(vals) THEN R
  ELSE SetAndPin(Data_pin(Data_set_value(R, d, itime, i, vals[i + 1]), d, i),
                 d, itime, vals, i + 1)

\* for (itime = 0; itime <= n_time; itime++) { ... }
RECURSIVE SetupGeomData(_, _, _, _, _)
SetupGeomData(R, d, itime, n_time, vals) ==
  IF itime > n_time THEN R
  ELSE SetupGeomData(SetAndPin(R, d, itime, vals, 0), d, itime + 1, n_time, vals)

\* PseudoBucklingRing(eps_buckl, ampl_ratio, n_buckl, r_0, T,
\* time_stepper_pt); n_time is time_stepper_pt->nprev_values().
PseudoBucklingRing_ctor_Values(R, r, eps_buckl, ampl_ratio, n_buckl, r_0, T, n_time) ==
  LET d == NewData(R)
      R1 == Data_ctor(GeomObject_ctor(R, r), d, n_time, NGeomValues)
      R2 == [R1 EXCEPT !.ring[r].Geom_data_pt = <<d>>,
                       !.ring[r].Must_clean_up = TRUE]
  IN  SetupGeomData(R2, d, 0, n_time,
                    <<eps_buckl, ampl_ratio, Double(n_buckl), r_0, T>>)

\* 2 Pi / omega1, 2 Pi / omega2 and ampl_ratio1, ampl_ratio2 of the Soedel
\* solution for the wavenumber n_buckl (and the one HoR of the model).
Period(mode, n_buckl) == Val("2 Pi / omega", <<mode, n_buckl>>)

AmplRatio(mode, n_buckl) == Val("ampl_ratio", <<mode, n_buckl>>)

ModeOf_NoWavenumberTest(n_buckl, imode) == IF imode = 1 THEN 1 ELSE 2

\* The mode whose period and amplitude ratio the constructor selects.
ModeOf(n_buckl, imode) ==
  IF n_buckl > 1
    THEN (IF imode = 1 THEN 1 ELSE IF imode = 2 THEN 2 ELSE 2)
    ELSE 1

\* PseudoBucklingRing(eps_buckl, HoR, n_buckl, imode, time_stepper_pt).
PseudoBucklingRing_ctor_Mode(R, r, eps_buckl, n_buckl, imode, n_time) ==
  LET T == Period(ModeOf(n_buckl, imode), n_buckl)
      ampl_ratio == AmplRatio(ModeOf(n_buckl, imode), n_buckl)
      d == NewData(R)
      R1 == Data_ctor(GeomObject_ctor(R, r), d, n_time, NGeomValues)
      R2 == [R1 EXCEPT !.ring[r].Geom_data_pt = <<d>>,
                       !.ring[r].Must_clean_up = TRUE]
  IN  SetupGeomData(R2, d, 0, n_time,
                    <<eps_buckl, ampl_ratio, Double(n_buckl), Double(1), T>>)

\* ~PseudoBucklingRing().
PseudoBucklingRing_dtor(R, r) ==
  IF R.ring[r].Must_clean_up
    THEN [Data_delete(R, R.ring[r].Geom_data_pt[1])
            EXCEPT !.ring[r].Geom_data_pt[1] = NULL]
    ELSE R

\* The storage of the object r is given back.
Destroyed(R, r) == [R EXCEPT !.ring[r] = [NoRing EXCEPT !.state = "destroyed"]]

\* "delete r" for a PseudoBucklingRing r.
delete_PseudoBucklingRing(R, r) == Destroyed(PseudoBucklingRing_dtor(R, r), r)

\* -------------------------------------------- PseudoBucklingRingElement
\* GeneralisedElement::add_internal_data(data_pt).
add_internal_data(R, r, d) ==
  [R EXCEPT !.ring[r].Internal_data_pt = Append(@, d)]

RECURSIVE AddGeomData(_, _, _)
AddGeomData(R, r, i) ==
  IF i >= Len(R.ring[r].Geom_data_pt) THEN R
  ELSE AddGeomData(add_internal_data(R, r, R.ring[r].Geom_data_pt[i + 1]),
                   r, i + 1)

\* The body of both constructors of the element, after the constructor of
\* the PseudoBucklingRing.
ElementBody_AllPinned(R, r) ==
  AddGeomData(
    [R EXCEPT !.ring[r].element = TRUE,
              !.ring[r].External_reference_pressure_pt = NULL,
              !.ring[r].Internal_geometric_variable_index = 3],
    r, 0)

ElementBody(R, r) ==
  AddGeomData(
    [Data_unpin(R, R.ring[r].Geom_data_pt[1], 3)
       EXCEPT !.ring[r].element = TRUE,
              !.ring[r].External_reference_pressure_pt = NULL,
              !.ring[r].Internal_geometric_variable_index = 3],
    r, 0)

\* PseudoBucklingRingElement(eps_buckl, ampl_ratio, n_buckl, r_0, T,
\* time_stepper_pt).
PseudoBucklingRingElement_ctor_Values(R, r, eps_buckl, ampl_ratio, n_buckl, r_0, T, n_time) ==
  ElementBody(PseudoBucklingRing_ctor_Values(R, r, eps_buckl, ampl_ratio,
                                             n_buckl, r_0, T, n_time), r)

\* PseudoBucklingRingElement(eps_buckl, HoR, n_buckl, imode,
\* time_stepper_pt).
PseudoBucklingRingElement_ctor_Mode(R, r, eps_buckl, n_buckl, imode, n_time) ==
  ElementBody(PseudoBucklingRing_ctor_Mode(R, r, eps_buckl, n_buckl, imode,
                                           n_time), r)

PseudoBucklingRingElement_dtor_NoReset(R, r) == R

\* ~PseudoBucklingRingElement(): "No need to kill it in
\* PseudoBucklingRing()".
PseudoBucklingRingElement_dtor(R, r) ==
  [R EXCEPT !.ring[r].Must_clean_up = FALSE]

\* ~GeneralisedElement(): the internal Data "gets wiped in the destructor
\* of GeneralisedElement".
RECURSIVE GeneralisedElement_dtor_from(_, _, _)
GeneralisedElement_dtor_from(R, r, i) ==
  IF i >= Len(R.ring[r].Internal_data_pt) THEN R
  ELSE GeneralisedElement_dtor_from(
         Data_delete(R, R.ring[r].Internal_data_pt[i + 1]), r, i + 1)

GeneralisedElement_dtor(R, r) == GeneralisedElement_dtor_from(R, r, 0)

\* "delete r" for a PseudoBucklingRingElement r: the destructor of the
\* element, then those of its bases PseudoBucklingRing and
\* GeneralisedElement, the base declared first last.
delete_PseudoBucklingRingElement(R, r) ==
  Destroyed(
    GeneralisedElement_dtor(
      PseudoBucklingRing_dtor(PseudoBucklingRingElement_dtor(R, r), r), r), r)

\* GeneralisedElement::flush_external_data(data_pt): the entry for data_pt,
\* if there is one, is taken out of the external data.
flush_external_data(R, r, data_pt) ==
  [R EXCEPT !.ring[r].External_data_pt = SelectSeq(@, LAMBDA x : x # data_pt)]

\* GeneralisedElement::add_external_data(data_pt): the index of data_pt in
\* the external data, to which data_pt is appended if it is not in it.
add_external_data_index(R, r, data_pt) ==
  LET ext == R.ring[r].External_data_pt IN
    IF \E i \in 1..Len(ext) : ext[i] = data_pt
      THEN (CHOOSE i \in 1..Len(ext) : ext[i] = data_pt) - 1
      ELSE Len(ext)

add_external_data(R, r, data_pt) ==
  LET ext == R.ring[r].External_data_pt IN
    IF \E i \in 1..Len(ext) : ext[i] = data_pt THEN R
    ELSE [R EXCEPT !.ring[r].External_data_pt = Append(@, data_pt)]

\* The possible outcomes of GeneralisedElement::external_data_pt(i).
external_data_pt(R, r, i) == Vector_at(R.ring[r].External_data_pt, i)

\* reference_pressure_pt() is external_data_pt(0).
reference_pressure_pt(R, r) == external_data_pt(R, r, 0)

reference_pressure(R, r) ==
  IF R.ring[r].External_reference_pressure_pt = NULL
    THEN Double(0)
    ELSE Data_value(R, R.ring[r].External_reference_pressure_pt, 0)

set_reference_pressure_pt_NoFlush(R, r, data_pt) ==
  LET R1 == [R EXCEPT !.ring[r].External_reference_pressure_pt = data_pt] IN
    [add_external_data(R1, r, data_pt)
       EXCEPT !.ring[r].External_reference_pressure_index =
                add_external_data_index(R1, r, data_pt)]

set_reference_pressure_pt(R, r, data_pt) ==
  LET R1 == flush_external_data(R, r, R.ring[r].External_reference_pressure_pt)
      R2 == [R1 EXCEPT !.ring[r].External_reference_pressure_pt = data_pt]
  IN  [add_external_data(R2, r, data_pt)
         EXCEPT !.ring[r].External_reference_pressure_index =
                  add_external_data_index(R2, r, data_pt)]

\* ------------------------------------------------- position derivatives
\* The vectors that position(zeta, r), veloc(zeta, veloc) and
\* accel(zeta, accel) write for a ring and a zeta: component c of the
\* j-th time derivative of the position.
Derivative(j) == <<Val("d^j r / dt^j", <<j, 0>>), Val("d^j r / dt^j", <<j, 1>>)>>

position(zeta) == Derivative(0)

veloc(zeta) == Derivative(1)

accel(zeta) == Derivative(2)

\* The outcome of a call that takes the vector drdt by reference: the
\* vector after the call and whether the call has thrown.
Returned(drdt) == [drdt |-> drdt, thrown |-> FALSE]

Raised(drdt) == [drdt |-> drdt, thrown |-> TRUE]

dposition_dt_AccelByDefault(zeta, j, drdt) ==
  IF j = 0 THEN Returned(position(zeta))
  ELSE IF j = 1 THEN Returned(veloc(zeta))
  ELSE Returned(accel(zeta))

\* dposition_dt(zeta, j, drdt).
dposition_dt(zeta, j, drdt) ==
  IF j = 0 THEN Returned(position(zeta))
  ELSE IF j = 1 THEN Returned(veloc(zeta))
  ELSE IF j = 2 THEN Returned(accel(zeta))
  ELSE Raised(drdt)

\* ---------------------------------------------------------------- actions
Init ==
  /\ alive = {}
  /\ treeRoot = {}
  /\ Father_pt = [n \in Nodes |-> NULL]
  /\ Son_pt = [n \in Nodes |-> <<>>]
  /\ Level = [n \in Nodes |-> 0]
  /\ Son_type = [n \in Nodes |-> OMEGA]
  /\ Object_pt = [n \in Nodes |-> NULL]
  /\ Root_pt = [n \in Nodes |-> NULL]
  /\ Neighbour_pt = [n \in Nodes |-> EmptyMap]
  /\ Neighbour_periodic = [n \in Nodes |-> EmptyMap]
  /\ forest = "none"
  /\ Trees_pt = <<>>
  /\ rawCalls = 0
  /\ rawUsed = {}
  /\ nbrCalls = 0
  /\ nbrSet = {}
  /\ deleted = {}
  /\ thrown = {}
  /\ data = [d \in DataIds |-> NoData]
  /\ ring = [r \in RingIds |-> NoRing]
  /\ caller = [drdt |-> <<Double(0), Double(0)>>, thrown |-> FALSE]

\* A run ends with the destruction of its forest: the trees are built,
\* refined and unrefined while the forest has not been destroyed.
Running == forest # "destroyed"

\* A call of a raw mutator is counted and its name recorded.
RawCall(name) ==
  /\ Running
  /\ rawCalls' = rawCalls + 1
  /\ rawUsed' = rawUsed \cup {name}
  /\ UNCHANGED <<nbrCalls, nbrSet, deleted, thrown, ringVars>>

\* The elements built for the new nodes of H are new objects.
Built(H) == deleted' = deleted \ (H.alive \ alive)

\* new TreeRoot(object_pt), with a freshly built element.
NewTreeRoot ==
  /\ Running
  /\ CanAllocate(Heap, 1)
  /\ Cardinality(treeRoot) < MaxTrees
  /\ Install(TreeRoot_ctor(Heap, NewNode(Heap, 1), NewNode(Heap, 1)))
  /\ Built(TreeRoot_ctor(Heap, NewNode(Heap, 1), NewNode(Heap, 1)))
  /\ UNCHANGED <<calls, ringVars>>

Split ==
  \E n \in alive, refine \in BOOLEAN :
    /\ Running
    /\ SplitDefined(Heap, n, refine)
    /\ Install(split_if_required(Heap, n, refine))
    /\ Built(split_if_required(Heap, n, refine))
    /\ UNCHANGED <<calls, ringVars>>

Merge ==
  \E n \in alive :
    /\ Running
    /\ MergeDefined(Heap, n)
    /\ \E unref \in SUBSET SonSet(Heap, n) :
         Install(merge_sons_if_required(Heap, n, unref))
    /\ UNCHANGED <<calls, deleted, ringVars>>

\* Vectors handed to set_son_pt: the empty vector and the vectors of one
\* pointer to an existing object.
SonVectors == {<<>>} \cup {<<m>> : m \in alive}

SetSonPt ==
  /\ rawCalls < MaxRawCalls
  /\ \E n \in alive, vec \in SonVectors : Install(set_son_pt(Heap, n, vec))
  /\ RawCall("set_son_pt")

FlushSons ==
  /\ rawCalls < MaxRawCalls
  /\ \E n \in alive : Install(flush_sons(Heap, n))
  /\ RawCall("flush_sons")

SetFatherPt ==
  /\ rawCalls < MaxRawCalls
  /\ \E n \in alive, f \in alive \cup {NULL} :
       Install(set_father_pt(Heap, n, f))
  /\ RawCall("set_father_pt")

SetRootPt ==
  /\ rawCalls < MaxRawCalls
  /\ \E n \in alive, r \in treeRoot \cup {NULL} :
       Install(set_root_pt(Heap, n, r))
  /\ RawCall("root_pt")

FlushObject ==
  /\ rawCalls < MaxRawCalls
  /\ \E n \in alive : Install(flush_object(Heap, n))
  /\ RawCall("flush_object")

\* Sequences of distinct elements of S, of every length from 1.
DistinctSeqs(S) ==
  {q \in UNION {[1..k -> S] : k \in 1..Cardinality(S)} :
     \A i, j \in 1..Len(q) : i # j => q[i] # q[j]}

\* new TreeForest(trees_pt): a non-empty vector of distinct TreeRoots.
NewTreeForest ==
  /\ forest = "none"
  /\ \E trees \in DistinctSeqs(treeRoot) : Install(TreeForest_ctor(Heap, trees))
  /\ UNCHANGED <<calls, deleted, ringVars>>

FlushTrees ==
  /\ forest = "live"
  /\ Install(flush_trees(Heap))
  /\ UNCHANGED <<calls, deleted, ringVars>>

\* delete forest_pt.
DestroyForest ==
  /\ forest = "live"
  /\ DtorDefined(Heap, Range(Trees_pt))
  /\ LET D == TreeForest_dtor(Heap) IN
       Install(D.heap) /\ deleted' = deleted \cup D.deleted
  /\ UNCHANGED <<calls, ringVars>>

Next ==
  \/ NewTreeRoot
  \/ Split
  \/ Merge
  \/ SetSonPt
  \/ FlushSons
  \/ SetFatherPt
  \/ SetRootPt
  \/ FlushObject
  \/ NewTreeForest
  \/ FlushTrees
  \/ DestroyForest

Spec == Init /\ [][Next]_vars

\* ------------------------------------------ actions of the constructors
\* A call of a default constructor; the caller sees the error, if any.
DefaultTree ==
  /\ Install(Tree_default_ctor(Heap).heap)
  /\ thrown' = thrown \cup (IF Tree_default_ctor(Heap).thrown THEN {"Tree"} ELSE {})
  /\ UNCHANGED <<rawCalls, rawUsed, nbrCalls, nbrSet, deleted, ringVars>>

DefaultTreeForest ==
  /\ forest = "none"
  /\ Install(TreeForest_default_ctor(Heap).heap)
  /\ thrown' = thrown \cup
       (IF TreeForest_default_ctor(Heap).thrown THEN {"TreeForest"} ELSE {})
  /\ UNCHANGED <<rawCalls, rawUsed, nbrCalls, nbrSet, deleted, ringVars>>

\* The ways in which nodes and forests come to exist: the constructors,
\* and split and merge, which construct and delete the sons.
NextConstruct ==
  \/ NewTreeRoot
  \/ Split
  \/ Merge
  \/ NewTreeForest
  \/ DefaultTree
  \/ DefaultTreeForest

SpecConstruct == Init /\ [][NextConstruct]_vars

\* ------------------------------------------- actions on the neighbour maps
\* A writing call on a neighbour map is counted; set is the entries that
\* the call sets explicitly.
NbrCall(set) ==
  /\ nbrCalls' = nbrCalls + 1
  /\ nbrSet' = nbrSet \cup set
  /\ UNCHANGED <<rawCalls, rawUsed, deleted, thrown, ringVars>>

\* "r->neighbour_pt(d) = v" for a TreeRoot or NULL v.
AssignNeighbour ==
  /\ nbrCalls < MaxNbrCalls
  /\ \E r \in treeRoot, d \in Dirs, v \in treeRoot \cup {NULL} :
       /\ Install(set_neighbour_pt(Heap, r, d, v))
       /\ NbrCall({<<"Neighbour_pt", r, d>>})

\* A read "r->neighbour_pt(d)".
ReadNeighbour ==
  /\ nbrCalls < MaxNbrCalls
  /\ \E r \in treeRoot, d \in Dirs : Install(neighbour_pt_heap(Heap, r, d))
  /\ NbrCall({})

ReadNeighbourPeriodic ==
  /\ nbrCalls < MaxNbrCalls
  /\ \E r \in treeRoot, d \in Dirs :
       Install(is_neighbour_periodic_heap(Heap, r, d))
  /\ NbrCall({})

SetNeighbourPeriodic ==
  /\ nbrCalls < MaxNbrCalls
  /\ \E r \in treeRoot, d \in Dirs :
       /\ Install(set_neighbour_periodic(Heap, r, d))
       /\ NbrCall({<<"Neighbour_periodic", r, d>>})

SetNeighbourNonperiodic ==
  /\ nbrCalls < MaxNbrCalls
  /\ \E r \in treeRoot, d \in Dirs :
       /\ Install(set_neighbour_nonperiodic(Heap, r, d))
       /\ NbrCall({<<"Neighbour_periodic", r, d>>})

\* The TreeRoots of a forest under construction and their neighbour maps;
\* the maps are read and written by no operation of Next.
NextNeighbour ==
  \/ NewTreeRoot
  \/ AssignNeighbour
  \/ ReadNeighbour
  \/ ReadNeighbourPeriodic
  \/ SetNeighbourPeriodic
  \/ SetNeighbourNonperiodic

SpecNeighbour == Init /\ [][NextNeighbour]_vars

\* ================================================================ claims
\* No call of one of the named raw mutators has been made.
Without(names) == rawUsed \cap names = {}

\* The states whose structure no raw mutator has touched: built by new
\* TreeRoot, split_if_required, merge_sons_if_required and the TreeForest
\* members.
Untouched == Without({"set_son_pt", "flush_sons", "set_father_pt", "root_pt"})

\* ------------------------------------------------- actions on the rings
\* The doubles and unsigneds handed to the constructors.
WaveNumbers == 0..MaxNBuckl

Modes == 0..MaxMode

PrevValues == 0..MaxPrev

\* The caller builds a Data of its own (a reference pressure or the
\* geometric Data of a ring) and gives it a value.
NewExternalData ==
  /\ CanAllocateData(Rings)
  /\ \E n_time \in PrevValues :
       LET d == NewData(Rings) IN
         InstallRings(
           Data_set_value(Data_ctor(Rings, d, n_time, NGeomValues), d, 0, 0,
                          Val("external", <<d>>)))
  /\ UNCHANGED <<treeVars, caller>>

LiveData == {d \in DataIds : data[d].state = "live"}

LiveRings == {r \in RingIds : ring[r].state = "live"}

NewRingFromData ==
  /\ CanAllocateRing(Rings)
  /\ \E d \in LiveData :
       InstallRings(PseudoBucklingRing_ctor_Data(Rings, NewRing(Rings), <<d>>))
  /\ UNCHANGED <<treeVars, caller>>

NewRingFromValues ==
  /\ CanAllocateRing(Rings) /\ CanAllocateData(Rings)
  /\ \E n_buckl \in WaveNumbers, n_time \in PrevValues :
       InstallRings(
         PseudoBucklingRing_ctor_Values(Rings, NewRing(Rings),
           Given("eps_buckl"), Given("ampl_ratio"), n_buckl, Given("r_0"),
           Given("T"), n_time))
  /\ UNCHANGED <<treeVars, caller>>

NewRingFromMode ==
  /\ CanAllocateRing(Rings) /\ CanAllocateData(Rings)
  /\ \E n_buckl \in WaveNumbers, imode \in Modes, n_time \in PrevValues :
       InstallRings(
         PseudoBucklingRing_ctor_Mode(Rings, NewRing(Rings),
           Given("eps_buckl"), n_buckl, imode, n_time))
  /\ UNCHANGED <<treeVars, caller>>

NewElementFromValues ==
  /\ CanAllocateRing(Rings) /\ CanAllocateData(Rings)
  /\ \E n_buckl \in WaveNumbers, n_time \in PrevValues :
       InstallRings(
         PseudoBucklingRingElement_ctor_Values(Rings, NewRing(Rings),
           Given("eps_buckl"), Given("ampl_ratio"), n_buckl, Given("r_0"),
           Given("T"), n_time))
  /\ UNCHANGED <<treeVars, caller>>

NewElementFromMode ==
  /\ CanAllocateRing(Rings) /\ CanAllocateData(Rings)
  /\ \E n_buckl \in WaveNumbers, imode \in Modes, n_time \in PrevValues :
       InstallRings(
         PseudoBucklingRingElement_ctor_Mode(Rings, NewRing(Rings),
           Given("eps_buckl"), n_buckl, imode, n_time))
  /\ UNCHANGED <<treeVars, caller>>

\* delete r, for a ring that is not an element.
DeleteRing ==
  /\ \E r \in LiveRings :
       /\ ~ring[r].element
       /\ InstallRings(delete_PseudoBucklingRing(Rings, r))
  /\ UNCHANGED <<treeVars, caller>>

\* delete r, for an element.
DeleteElement ==
  /\ \E r \in LiveRings :
       /\ ring[r].element
       /\ InstallRings(delete_PseudoBucklingRingElement(Rings, r))
  /\ UNCHANGED <<treeVars, caller>>

SetReferencePressure ==
  /\ \E r \in LiveRings, d \in LiveData :
       /\ ring[r].element
       /\ InstallRings(set_reference_pressure_pt(Rings, r, d))
  /\ UNCHANGED <<treeVars, caller>>

\* dposition_dt(zeta, j, drdt) on a ring whose geometric Data exists; the
\* vector of the caller keeps what the last call left in it.
DPositionDt ==
  /\ \E r \in LiveRings, j \in 0..MaxDeriv :
       /\ ring[r].Geom_data_pt[1] \in LiveData
       /\ caller' = dposition_dt("zeta", j, caller.drdt)
  /\ UNCHANGED <<treeVars, data, ring>>

NextRing ==
  \/ NewExternalData
  \/ NewRingFromData
  \/ NewRingFromValues
  \/ NewRingFromMode
  \/ NewElementFromValues
  \/ NewElementFromMode
  \/ DeleteRing
  \/ DeleteElement
  \/ SetReferencePressure

SpecRing == Init /\ [][NextRing]_vars

\* The rings that are not elements, and the calls of dposition_dt on them.
NextDerivative ==
  \/ NewExternalData
  \/ NewRingFromData
  \/ NewRingFromValues
  \/ NewRingFromMode
  \/ DeleteRing
  \/ DPositionDt

SpecDerivative == Init /\ [][NextDerivative]_vars

\* ----------------------------------------------------------------- C1
\* C1: in every reachable state every node satisfies
\* is_leaf() == (nsons() == 0).
C1_LeafIffNoSons ==
  \A n \in alive : is_leaf(Heap, n) = (nsons(Heap, n) = 0)

\* A raw set_son_pt has given a node a single son while other nodes are
\* leaves.
C1_Witness ==
  /\ rawCalls > 0
  /\ \E n \in alive : Len(Son_pt[n]) = 1
  /\ \E n \in alive : Len(Son_pt[n]) = 0

\* ----------------------------------------------------------------- C2
SonsBelowFather(H) ==
  \A n \in H.alive : \A s \in SonSet(H, n) :
    level(H, s) = level(H, n) + 1 /\ father_pt(H, s) = n

\* C2 as stated: for every node n and every son s of n, s.level() ==
\* n.level() + 1 and s.father_pt() == n, after any sequence of the public
\* operations, set_son_pt and set_father_pt included.
C2_Original == SonsBelowFather(Heap)

\* C2 amended: the same, in every state reached without set_son_pt and
\* set_father_pt.
C2_SonsBelowFather ==
  Without({"set_son_pt", "set_father_pt"}) => SonsBelowFather(Heap)

\* A tree of depth 2 built without set_son_pt and set_father_pt.
C2_Witness ==
  /\ Without({"set_son_pt", "set_father_pt"})
  /\ \E n \in alive : \E s \in SonSet(Heap, n) :
       Father_pt[n] # NULL /\ Level[s] = 2

\* ----------------------------------------------------------------- C3
\* The node at which "n = n->father_pt()" stops, NULL if it does not stop
\* within MaxNodes steps or runs into a deleted object.
RECURSIVE Ancestor(_, _, _)
Ancestor(H, n, fuel) ==
  IF n \notin H.alive THEN NULL
  ELSE IF father_pt(H, n) = NULL THEN n
  ELSE IF fuel = 0 THEN NULL
  ELSE Ancestor(H, father_pt(H, n), fuel - 1)

FatherChainEndsAtRoot(H) ==
  /\ \A n \in H.alive :
       /\ Ancestor(H, n, MaxNodes) # NULL
       /\ Ancestor(H, n, MaxNodes) = root_pt(H, n)
  /\ \A r \in H.treeRoot : root_pt(H, r) = r /\ father_pt(H, r) = NULL

\* C3 as stated: in every reachable state, following father_pt() from any
\* node ends at a node without father, which is the node's root_pt(); a
\* TreeRoot is its own root and has no father.
C3_Original == FatherChainEndsAtRoot(Heap)

\* C3 amended: the same, in every state reached without set_son_pt,
\* flush_sons, set_father_pt and assignment through root_pt().
C3_FatherChainEndsAtRoot == Untouched => FatherChainEndsAtRoot(Heap)

\* An untouched tree of depth 2: a node two father links below its root.
C3_Witness ==
  /\ Untouched
  /\ \E n \in alive :
       /\ Root_pt[n] \in treeRoot
       /\ Father_pt[n] \notin treeRoot \cup {NULL}
       /\ Father_pt[Father_pt[n]] = Root_pt[n]

\* ----------------------------------------------------------------- C4
\* What a split of the leaf n produces: the sons of type 0..NSons-1, each a
\* new object whose father is n.
FullSplit(H, n) ==
  LET H1 == split_if_required(H, n, TRUE) IN
    /\ nsons(H1, n) = NSons
    /\ \A i \in 0..(NSons - 1) :
         /\ son_pt(H1, n, i) \in H1.alive \ H.alive
         /\ son_type(H1, son_pt(H1, n, i)) = i
         /\ father_pt(H1, son_pt(H1, n, i)) = n
    /\ Cardinality(SonSet(H1, n)) = NSons

SplitIsFull(H) ==
  \A n \in H.alive :
    (is_leaf(H, n) /\ SplitDefined(H, n, TRUE)) => FullSplit(H, n)

NoneOrAllSons(H) == \A n \in H.alive : nsons(H, n) \in {0, NSons}

\* C4 as stated: a split gives the leaf exactly 2^d sons of types
\* 0..2^d-1 with father = the node, and in every reachable state every node
\* has 0 or 2^d sons.
C4_Original == SplitIsFull(Heap) /\ NoneOrAllSons(Heap)

\* C4 amended: a split gives the leaf exactly 2^d sons as stated, and every
\* node has 0 or 2^d sons in every state reached without set_son_pt.
C4_NoPartialSplit ==
  SplitIsFull(Heap) /\ (Without({"set_son_pt"}) => NoneOrAllSons(Heap))

\* A split has acted (a node with all its sons) and another leaf can split.
C4_Witness ==
  /\ Without({"set_son_pt"})
  /\ \E n \in alive : Len(Son_pt[n]) = NSons
  /\ \E n \in alive : Len(Son_pt[n]) = 0 /\ SplitDefined(Heap, n, TRUE)

\* ----------------------------------------------------------------- C5
\* The step is a call of split_if_required on n that splits.
SplitStep(n) ==
  /\ SplitDefined(Heap, n, TRUE)
  /\ Heap' = split_if_required(Heap, n, TRUE)
  /\ UNCHANGED <<calls, ringVars>>

\* The step is a call of merge_sons_if_required on n whose sons are all
\* leaves and all request unrefinement.
MergeStep(n) ==
  /\ MergeDefined(Heap, n)
  /\ \A s \in SonSet(Heap, n) : nsons(Heap, s) = 0
  /\ Heap' = merge_sons_if_required(Heap, n, SonSet(Heap, n))
  /\ UNCHANGED <<calls, ringVars>>

SetSonPtStep(n) == \E vec \in SonVectors : Heap' = set_son_pt(Heap, n, vec)

FlushSonsStep(n) == Heap' = flush_sons(Heap, n)

BecomesInternal(n) ==
  n \in alive /\ n \in alive' /\ Len(Son_pt[n]) = 0 /\ Len(Son_pt'[n]) # 0

BecomesLeaf(n) ==
  n \in alive /\ n \in alive' /\ Len(Son_pt[n]) # 0 /\ Len(Son_pt'[n]) = 0

C6_SplitIdempotent ==
  \A n \in alive : \A refine \in BOOLEAN :
    SplitDefined(Heap, n, refine) =>
      LET H1 == split_if_required(Heap, n, refine) IN
        SplitDefined(H1, n, refine) => split_if_required(H1, n, refine) = H1

\* The state between the two calls: a node that the first call has split,
\* with room for the sons a wrong second split would build.
C6_Witness ==
  /\ Untouched
  /\ \E n \in alive :
       /\ Len(Son_pt[n]) = NSons
       /\ Object_pt[n] # NULL
       /\ CanAllocate(Heap, NSons)

\* ----------------------------------------------------------------- C7
\* C7: splitting a leaf and merging it at once, all its sons being leaves
\* that request unrefinement, gives is_leaf() and nsons() == 0 again, and
\* the sons no longer exist.
C7_SplitMergeRoundTrip ==
  \A n \in alive :
    (is_leaf(Heap, n) /\ SplitDefined(Heap, n, TRUE)) =>
      LET H1 == split_if_required(Heap, n, TRUE)
          H2 == merge_sons_if_required(H1, n, SonSet(H1, n))
      IN /\ ~is_leaf(H1, n)
         /\ is_leaf(H2, n)
         /\ nsons(H2, n) = 0
         /\ H2.alive = Heap.alive

\* A leaf that can be split, after an earlier merge has freed addresses
\* below the highest one in use.
C7_Witness ==
  /\ Untouched
  /\ \E n \in alive : Len(Son_pt[n]) = 0 /\ SplitDefined(Heap, n, TRUE)
  /\ \E a \in alive : \E f \in Nodes \ alive : f < a

RECURSIVE PathFrom(_, _, _, _)
PathFrom(H, n, x, fuel) ==
  IF x = n THEN <<>>
  ELSE IF fuel = 0 \/ x \notin H.alive \/ H.Father_pt[x] = NULL THEN <<OMEGA>>
  ELSE LET up == PathFrom(H, n, H.Father_pt[x], fuel - 1) IN
         IF up = <<OMEGA>> THEN up ELSE Append(up, H.Son_type[x])

Below(H, n) == {x \in H.alive : PathFrom(H, n, x, MaxNodes) # <<OMEGA>>}

\* Pre-order on paths: a node before the nodes below it, and the nodes
\* under a son of lower type before those under a son of higher type.
PathBefore(a, b) ==
  \/ Len(a) < Len(b) /\ SubSeq(b, 1, Len(a)) = a
  \/ \E i \in 1..Len(a) :
       /\ i <= Len(b)
       /\ SubSeq(a, 1, i - 1) = SubSeq(b, 1, i - 1)
       /\ a[i] < b[i]

\* q lists exactly the nodes of S, each once, in pre-order below n.
PreOrderOf(H, n, q, S) ==
  /\ Range(q) = S
  /\ Len(q) = Cardinality(S)
  /\ \A i, j \in 1..Len(q) :
       i < j => PathBefore(PathFrom(H, n, q[i], MaxNodes),
                           PathFrom(H, n, q[j], MaxNodes))

PreOrderTraversals(H, n) ==
  LET all == stick_all_tree_nodes_into_vector(H, n, <<>>)
      leaves == stick_leaves_into_vector(H, n, <<>>)
      HasNoSon(x) == Len(H.Son_pt[x]) = 0
      HasSons(x) == Len(H.Son_pt[x]) # 0
  IN /\ all[1] = n
     /\ traverse_all(H, n) = all
     /\ leaves = SelectSeq(all, HasNoSon)
     /\ traverse_leaves(H, n) = leaves
     /\ traverse_all_but_leaves(H, n) = SelectSeq(all, HasSons)
     /\ (HasSons(n) /\ \A s \in SonSet(H, n) : HasNoSon(s))
          => /\ all = <<n>> \o H.Son_pt[n]
             /\ (H.forest = "live" /\ H.Trees_pt = <<n>>)
                  => forest_stick_all_tree_nodes_into_vector(H, <<>>)
                       = <<n>> \o H.Son_pt[n]

\* C9: the traversals are pre-order with the sons in ascending son type:
\* the node first and then the sub-tree of every son, son 0 first; a
\* once-split node yields [node, son 0, son 1, ...], also as the only tree
\* of a forest; the leaf traversals
\* yield the leaves and traverse_all_but_leaves the non-leaves, in the
\* order of the full traversal.
C9_PreOrder ==
  \A n \in alive :
    /\ Traversable(Heap, n) => PreOrderTraversals(Heap, n)
    /\ Untouched =>
         /\ PreOrderOf(Heap, n, traverse_all(Heap, n), Below(Heap, n))
         /\ \A i \in 1..Len(Son_pt[n]) : Son_type[Son_pt[n][i]] = i - 1

\* An untouched tree of depth 2 whose first son is a leaf and whose last
\* son is split: leaves and non-leaves interleave in the traversal.
C9_Witness ==
  /\ Untouched
  /\ \E r \in treeRoot :
       /\ Len(Son_pt[r]) = NSons
       /\ Len(Son_pt[Son_pt[r][1]]) = 0
       /\ Len(Son_pt[Son_pt[r][NSons]]) = NSons

\* ---------------------------------------------------------------- C10
\* Position of the tree r in the forest.
TreeIndex(H, r) == CHOOSE i \in 1..Len(H.Trees_pt) : H.Trees_pt[i] = r

InForest(H) == {x \in H.alive : H.Root_pt[x] \in Range(H.Trees_pt)}

\* q lists every node of S once, tree by tree in the order of the forest,
\* and its part for every tree is that tree's own vector.
ForestConcatenation(H, q, S, TreeVector(_)) ==
  /\ Range(q) = S
  /\ Len(q) = Cardinality(S)
  /\ \A i, j \in 1..Len(q) :
       i < j => TreeIndex(H, H.Root_pt[q[i]]) <= TreeIndex(H, H.Root_pt[q[j]])
  /\ \A t \in 1..Len(H.Trees_pt) :
       LET InTree(x) == H.Root_pt[x] = H.Trees_pt[t]
       IN SelectSeq(q, InTree) = TreeVector(H.Trees_pt[t])

\* C10: the vectors of the forest are the concatenation of the vectors of
\* its trees in tree-index order: every node (leaf) of every tree once, the
\* nodes of tree i before those of tree j for i < j.
C10_ForestConcatenation ==
  (Untouched /\ forest = "live") =>
    LET AllOf(r) == stick_all_tree_nodes_into_vector(Heap, r, <<>>)
        LeavesOf(r) == stick_leaves_into_vector(Heap, r, <<>>)
    IN /\ ForestConcatenation(Heap,
            forest_stick_all_tree_nodes_into_vector(Heap, <<>>),
            InForest(Heap), AllOf)
       /\ ForestConcatenation(Heap,
            forest_stick_leaves_into_vector(Heap, <<>>),
            {x \in InForest(Heap) : Len(Son_pt[x]) = 0}, LeavesOf)

\* A forest of two trees, the first of them split, held in the order
\* opposite to their addresses.
C10_Witness ==
  /\ Untouched
  /\ forest = "live"
  /\ Len(Trees_pt) = 2
  /\ Trees_pt[1] > Trees_pt[2]
  /\ Len(Son_pt[Trees_pt[1]]) = NSons

\* ---------------------------------------------------------------- C11
\* The son indices tried: every son type and some integers on either side.
SonIndices == (0 - 1)..(NSons + 1)

\* C11 as stated: son_pt(index) returns the indexed son, or NULL if the
\* node is a leaf or index is outside the populated range, for every
\* integer index.
C11_Original ==
  \A n \in alive : \A i \in SonIndices :
    son_pt_call(Heap, n, i) =
      {Ret(IF i \in 0..(Len(Son_pt[n]) - 1) THEN Son_pt[n][i + 1] ELSE NULL)}

\* C11 amended: son_pt(index) returns NULL for every index if the node is
\* a leaf and the indexed son for 0 <= index < nsons(); what it does for
\* another index on a node with sons is that of an access outside the
\* Vector.
C11_SonPt ==
  \A n \in alive : \A i \in SonIndices :
    son_pt_call(Heap, n, i) =
      IF Len(Son_pt[n]) = 0 THEN {Ret(NULL)}
      ELSE IF i \in 0..(Len(Son_pt[n]) - 1) THEN {Ret(Son_pt[n][i + 1])}
      ELSE OutOfRange

\* A split node and one of its sons, a leaf.
C11_Witness ==
  \E n \in alive :
    /\ Len(Son_pt[n]) = NSons
    /\ \E s \in SonSet(Heap, n) : s \in alive /\ Len(Son_pt[s]) = 0

\* ---------------------------------------------------------------- C12
TreeIndices == 0..(MaxTrees + 1)

\* The forest built from trees returns them by their position in trees.
InConstructionOrder(H, trees) ==
  LET H1 == TreeForest_ctor(H, trees) IN
    \A i \in 0..(Len(trees) - 1) : tree_pt_call(H1, i) = {Ret(trees[i + 1])}

\* C12 as stated: tree_pt(i) returns the i-th tree for i < ntree() and
\* rejects the access for i >= ntree().
C12_Original ==
  forest = "live" =>
    \A i \in TreeIndices :
      tree_pt_call(Heap, i) =
        IF i < ntree(Heap) THEN {Ret(Trees_pt[i + 1])} ELSE {RangeError}

\* C12 amended: tree_pt(i) returns the i-th tree in construction order for
\* i < ntree(); for i >= ntree() it makes an access outside the Vector,
\* which only a range-checking build rejects.
C12_TreePt ==
  /\ forest = "live" =>
       \A i \in TreeIndices :
         tree_pt_call(Heap, i) =
           IF i < ntree(Heap) THEN {Ret(Trees_pt[i + 1])} ELSE OutOfRange
  /\ forest = "none" =>
       \A trees \in DistinctSeqs(treeRoot) : InConstructionOrder(Heap, trees)

\* A forest of two trees held against the order of their addresses.
C12_Witness ==
  forest = "live" /\ Len(Trees_pt) = 2 /\ Trees_pt[1] > Trees_pt[2]

\* ---------------------------------------------------------------- C13
\* The entries of the neighbour maps of root r that a call has set.
SetExplicitly(map, r, d) == <<map, r, d>> \in nbrSet

\* C13: a freshly constructed TreeRoot has no neighbours: nneighbour() is
\* 0, and in every direction that has never been set explicitly, on a fresh
\* TreeRoot or a later one, neighbour_pt(d) is null and
\* is_neighbour_periodic(d) is false.
C13_FreshTreeRoot ==
  /\ CanAllocate(Heap, 1) =>
       LET n == NewNode(Heap, 1)
           H1 == TreeRoot_ctor(Heap, n, n)
       IN  /\ nneighbour(H1, n) = 0
           /\ \A d \in Dirs :
                neighbour_pt(H1, n, d) = NULL /\ ~is_neighbour_periodic(H1, n, d)
  /\ \A r \in treeRoot :
       /\ (\A d \in Dirs : ~SetExplicitly("Neighbour_pt", r, d))
            => nneighbour(Heap, r) = 0
       /\ \A d \in Dirs :
            /\ ~SetExplicitly("Neighbour_pt", r, d)
                 => neighbour_pt(Heap, r, d) = NULL
            /\ ~SetExplicitly("Neighbour_periodic", r, d)
                 => ~is_neighbour_periodic(Heap, r, d)

\* A TreeRoot whose maps hold entries, made by reads, in directions that
\* were never set.
C13_Witness ==
  \E r \in treeRoot : \E d \in Dirs :
    /\ CanAllocate(Heap, 1)
    /\ d \in DOMAIN Neighbour_pt[r] /\ ~SetExplicitly("Neighbour_pt", r, d)
    /\ d \in DOMAIN Neighbour_periodic[r]
    /\ ~SetExplicitly("Neighbour_periodic", r, d)

\* ---------------------------------------------------------------- C14
\* C14: after any sequence of neighbour assignments (null ones among them)
\* and of reads of directions never set, nneighbour() of every TreeRoot is
\* the number of directions whose current neighbour is non-null, and one
\* more read of any direction leaves the count as it is.
C14_NeighbourCount ==
  \A r \in treeRoot :
    /\ nneighbour(Heap, r) =
         Cardinality({d \in Dirs : neighbour_pt(Heap, r, d) # NULL})
    /\ \A d \in Dirs :
         nneighbour(neighbour_pt_heap(Heap, r, d), r) = nneighbour(Heap, r)

\* A TreeRoot whose map holds a neighbour in one direction and a null
\* entry in another.
C14_Witness ==
  \E r \in treeRoot : \E d1, d2 \in DOMAIN Neighbour_pt[r] :
    Neighbour_pt[r][d1] # NULL /\ Neighbour_pt[r][d2] = NULL

\* ---------------------------------------------------------------- C15
\* "a->neighbour_pt(d) = b" changes nothing but the entry of a for d.
OnlyEntryChanged(H, a, d, b) ==
  LET H1 == set_neighbour_pt(H, a, d, b) IN
    /\ neighbour_pt(H1, a, d) = b
    /\ \A e \in Dirs \ {d} : neighbour_pt(H1, a, e) = neighbour_pt(H, a, e)
    /\ nneighbour(H1, a) =
         nneighbour(H, a) - (IF neighbour_pt(H, a, d) # NULL THEN 1 ELSE 0)
                          + (IF b # NULL THEN 1 ELSE 0)
    /\ \A r \in H.treeRoot \ {a} :
         /\ H1.Neighbour_pt[r] = H.Neighbour_pt[r]
         /\ nneighbour(H1, r) = nneighbour(H, r)
    /\ H1.Neighbour_periodic = H.Neighbour_periodic

\* C15: neighbour links are never made symmetric automatically: assigning B
\* as the neighbour of A in a direction changes the entry of A for that
\* direction and no neighbour pointer or neighbour count of B.
C15_NoSymmetry ==
  \A a \in treeRoot, d \in Dirs, b \in treeRoot \cup {NULL} :
    OnlyEntryChanged(Heap, a, d, b)

\* A is the neighbour of B in one direction and B has no neighbour.
C15_Witness ==
  \E a, b \in treeRoot : \E d \in Dirs :
    /\ a # b
    /\ d \in DOMAIN Neighbour_pt[a] /\ Neighbour_pt[a][d] = b
    /\ nneighbour(Heap, b) = 0
    /\ \A e \in Dirs : neighbour_pt(Heap, b, e) = NULL

\* ---------------------------------------------------------------- C16
\* A call on the periodicity flags leaves all neighbour pointers alone, and
\* an assignment of a neighbour leaves all periodicity flags alone.
FlagsIndependent(H, r, d) ==
  /\ set_neighbour_periodic(H, r, d).Neighbour_pt = H.Neighbour_pt
  /\ set_neighbour_nonperiodic(H, r, d).Neighbour_pt = H.Neighbour_pt
  /\ is_neighbour_periodic_heap(H, r, d).Neighbour_pt = H.Neighbour_pt
  /\ is_neighbour_periodic(set_neighbour_periodic(H, r, d), r, d)
  /\ ~is_neighbour_periodic(set_neighbour_nonperiodic(H, r, d), r, d)
  /\ \A v \in H.treeRoot \cup {NULL} :
       set_neighbour_pt(H, r, d, v).Neighbour_periodic = H.Neighbour_periodic

TreeFields == DOMAIN Heap \ {"forest", "Trees_pt"}

\* C17: flush_trees() empties the sequence of the forest (ntree() is 0
\* afterwards) and changes nothing else: every tree that was in the forest
\* exists as before with its sons, neighbours and object, and the
\* destruction of the flushed forest deletes no node and no element.
C17_FlushTrees ==
  forest = "live" =>
    LET H1 == flush_trees(Heap)
        D == TreeForest_dtor(H1)
    IN  /\ ntree(H1) = 0
        /\ H1.forest = "live"
        /\ \A f \in TreeFields : H1[f] = Heap[f]
        /\ DtorDefined(H1, Range(H1.Trees_pt))
        /\ \A f \in TreeFields : D.heap[f] = Heap[f]
        /\ D.deleted = {}

\* A flushed forest whose former trees exist, one of them with sons.
C17_Witness ==
  /\ forest = "live"
  /\ Trees_pt = <<>>
  /\ \E r \in treeRoot : ~is_leaf(Heap, r)

\* ---------------------------------------------------------------- C18
\* A step that destroys the forest.
DestroyForestStep == forest = "live" /\ forest' = "destroyed"

\* The elements of the nodes in S.
ObjectsOf(H, S) == {object_pt(H, x) : x \in S} \ {NULL}

LeavesIn(H, S) == {x \in S : is_leaf(H, x)}

\* C18 as stated: the destruction of the forest deletes its TreeRoots and
\* all their descendants and deletes no element.
C18_Original ==
  [][DestroyForestStep =>
       /\ alive' = alive \ Reached(Heap, Range(Trees_pt))
       /\ deleted' = deleted]_vars

\* C18: the destruction of a TreeForest deletes every TreeRoot it holds and
\* every descendant of them, and deletes no element of a leaf among them:
\* the elements that are deleted are those of the nodes with sons.
C18_ForestDestruction ==
  [][DestroyForestStep =>
       LET gone == Reached(Heap, Range(Trees_pt)) IN
         /\ alive' = alive \ gone
         /\ treeRoot' = treeRoot \ gone
         /\ ObjectsOf(Heap, LeavesIn(Heap, gone)) \cap deleted' = {}
         /\ deleted' \ deleted = ObjectsOf(Heap, gone \ LeavesIn(Heap, gone))]_vars

\* A destroyed forest and a deleted element.
C18_Witness == forest = "destroyed" /\ deleted # {}

\* ---------------------------------------------------------------- C19
\* C19: deleting a Tree deletes the objects of its non-leaf nodes and of
\* no leaf; deleting a TreeForest deletes its trees one by one, and with
\* them the objects of their non-leaf nodes.
C19_NonLeafObjectsDeleted ==
  /\ \A n \in alive :
       DtorDefined(Heap, {n}) =>
         LET gone == Reached(Heap, {n})
             D == delete_Tree(Heap, n)
         IN  /\ D.heap.alive = alive \ gone
             /\ D.deleted = ObjectsOf(Heap, gone \ LeavesIn(Heap, gone))
             /\ D.deleted \cap ObjectsOf(Heap, LeavesIn(Heap, gone)) = {}
  /\ forest = "live" /\ DtorDefined(Heap, Range(Trees_pt)) =>
       TreeForest_dtor(Heap).deleted =
         UNION {delete_Tree(Heap, t).deleted : t \in Range(Trees_pt)}

\* The forest is destroyed and with it the elements of two nodes with sons.
C19_Witness == forest = "destroyed" /\ Cardinality(deleted) >= 2

\* ---------------------------------------------------------------- C20
\* A node that is neither a TreeRoot nor the son of a father.
Unattached(H, n) == father_pt(H, n) = NULL /\ root_pt(H, n) = NULL

\* C20: the default construction of a Tree or of a TreeForest always throws
\* to its caller and constructs nothing: no constructor call leaves a node
\* without father and root or a forest without trees.
C20_DefaultConstructionThrows ==
  /\ Tree_default_ctor(Heap) = Thrown(Heap)
  /\ TreeForest_default_ctor(Heap) = Thrown(Heap)
  /\ \A n \in alive : ~Unattached(Heap, n)
  /\ forest = "live" => ntree(Heap) > 0

\* Both default constructors have thrown and a node and a forest exist.
C20_Witness ==
  thrown = {"Tree", "TreeForest"} /\ alive # {} /\ forest = "live"

\* ---------------------------------------------------------------- C21
\* A step in which an existing node loses its object and no node is
\* constructed or deleted: a call of flush_object().
FlushObjectStep ==
  /\ alive' = alive
  /\ \E n \in alive : Object_pt[n] # NULL /\ Object_pt'[n] = NULL

\* C21: flush_object() empties the object reference of its node and leaves
\* the structure as it is: father, sons, level, son type and root of every
\* node and the object reference of every other node are unchanged, and no
\* element is deleted.
C21_FlushObject ==
  [][FlushObjectStep =>
       /\ \E n \in alive : Object_pt' = [Object_pt EXCEPT ![n] = NULL]
       /\ Father_pt' = Father_pt
       /\ Son_pt' = Son_pt
       /\ Level' = Level
       /\ Son_type' = Son_type
       /\ Root_pt' = Root_pt
       /\ treeRoot' = treeRoot
       /\ deleted' = deleted]_vars

\* A node with sons whose object has been flushed.
C21_Witness ==
  /\ "flush_object" \in rawUsed
  /\ \E n \in alive : Object_pt[n] = NULL /\ ~is_leaf(Heap, n)

\* ---------------------------------------------------------------- C22
\* The elements that exist, and the geometric Data of a ring.
LiveElements == {r \in LiveRings : ring[r].element}

GeomData(r) == ring[r].Geom_data_pt[1]

ModeCtorResult(n_buckl, imode) ==
  LET r == NewRing(Rings)
      R1 == PseudoBucklingRing_ctor_Mode(Rings, r, Given("eps_buckl"),
                                         n_buckl, imode, 0)
      d == R1.ring[r].Geom_data_pt[1]
  IN  [T |-> Data_value(R1, d, 4), ampl_ratio |-> Data_value(R1, d, 1)]

RingDestroyed(r) == ring[r].state = "live" /\ ring'[r].state = "destroyed"

\* C24: a geometric Data is freed at most once and only in the
\* destruction of the ring that owns it: the destruction of a ring built
\* from external Data deletes no Data, the destruction of a ring built
\* from values deletes its Data once, and the destructor of the element
\* sets Must_clean_up to false, so that the destructor of the
\* PseudoBucklingRing that runs after it deletes nothing.
C24_FreedOnce ==
  [][/\ \A d \in DataIds : data'[d].frees <= 1
     /\ \A d \in DataIds :
          (data[d].state = "live" /\ Data_value(Rings, d, 0) = Val("external", <<d>>))
            => data'[d] = data[d]
     /\ \A d \in DataIds :
          data'[d].frees > data[d].frees =>
            \E r \in RingIds :
              /\ RingDestroyed(r)
              /\ ring[r].Geom_data_pt = <<d>>
              /\ ring[r].Must_clean_up
     /\ \A r \in RingIds :
          RingDestroyed(r) =>
            IF ring[r].Must_clean_up
              THEN /\ data'[GeomData(r)].frees = 1
                   /\ data'[GeomData(r)].state = "deleted"
                   /\ \A e \in DataIds \ {GeomData(r)} : data'[e] = data[e]
              ELSE data' = data
     /\ \A r \in LiveElements :
          LET R1 == PseudoBucklingRingElement_dtor(Rings, r) IN
            /\ ~R1.ring[r].Must_clean_up
            /\ PseudoBucklingRing_dtor(R1, r) = R1]_vars

C24_Witness ==
  /\ \E d \in DataIds :
       data[d].state = "deleted" /\ data[d].frees = 1 /\ ~data[d].pinned[4]
  /\ \E r \in RingIds : ring[r].state = "destroyed"

\* ---------------------------------------------------------------- C25
\* C25: reference_pressure() is 0.0 while no reference pressure Data has
\* been set; after set_reference_pressure_pt(d) it is value(0) of d, d is
\* the only external Data of the element and reference_pressure_pt() is
\* d, whatever calls of set_reference_pressure_pt came before.
C25_ReferencePressure ==
  \A r \in LiveElements :
    LET pt == ring[r].External_reference_pressure_pt
        ext == ring[r].External_data_pt
    IN  /\ pt = NULL => reference_pressure(Rings, r) = Double(0) /\ ext = <<>>
        /\ pt # NULL => /\ ext = <<pt>>
                        /\ reference_pressure_pt(Rings, r) = {Ret(pt)}
        /\ pt \in LiveData =>
             reference_pressure(Rings, r) = Data_value(Rings, pt, 0)
        /\ flush_external_data(Rings, r, pt).ring[r].External_data_pt = <<>>
        /\ \A d \in LiveData :
             LET R1 == set_reference_pressure_pt(Rings, r, d) IN
               /\ reference_pressure(R1, r) = Data_value(Rings, d, 0)
               /\ R1.ring[r].External_data_pt = <<d>>
               /\ reference_pressure_pt(R1, r) = {Ret(d)}
               /\ R1.data = data

C25_Witness ==
  \E r \in LiveElements :
    LET pt == ring[r].External_reference_pressure_pt IN
      /\ pt \in LiveData \ {GeomData(r)}
      /\ ring[r].External_data_pt = <<pt>>
      /\ reference_pressure(Rings, r) = Val("external", <<pt>>)

\* ---------------------------------------------------------------- C26
\* C26: dposition_dt(zeta, j, drdt) returns the position in drdt for
\* j = 0, the velocity for j = 1 and the acceleration for j = 2; for
\* j >= 3 it throws and leaves drdt as it was.
C26_DPositionDt ==
  \A j \in 0..MaxDeriv :
    LET out == dposition_dt("zeta", j, caller.drdt) IN
      /\ j = 0 => out = Returned(position("zeta"))
      /\ j = 1 => out = Returned(veloc("zeta"))
      /\ j = 2 => out = Returned(accel("zeta"))
      /\ j >= 3 => out.thrown /\ out.drdt = caller.drdt

C26_Witness ==
  /\ caller.thrown
  /\ caller.drdt = accel("zeta")

====
